---------------------------- MODULE Spec2Model ----------------------------
(***************************************************************************)
(* A model of MediaMiner's bulk download orchestration:                    *)
(*   - DownloadScheduler (src/utils/download_scheduler.py): a              *)
(*     queue.PriorityQueue of (priority, task-dict) entries, per-platform  *)
(*     rate limiter records, the sequential execute_downloads loop and the *)
(*     worker threads of start_scheduler, cancel_download;                 *)
(*   - BulkDownloader (src/utils/bulk_downloader.py): its statistics and   *)
(*     the bulk operations that update them.                               *)
(*                                                                         *)
(* Time is counted in whole seconds.  time.sleep(s) makes a thread         *)
(* runnable again no earlier than s seconds later; a thread may always run *)
(* later than that.                                                        *)
(*                                                                         *)
(* In download_scheduler.py the handler "except Exception: ... return None"*)
(* of schedule_download's try block is printed after                       *)
(* _execute_single_download (lines 195-197); it is modelled where the try  *)
(* block it closes stands, in schedule_download.                           *)
(***************************************************************************)
EXTENDS Integers, Sequences, FiniteSets, TLC

(***************************************************************************)
(* Bounds of the model.                                                    *)
(***************************************************************************)
MaxTasks == 3       \* schedule_download calls in one behaviour of Spec
MaxWorkers == 2     \* largest max_concurrent given to start_scheduler
MaxCancels == 1     \* cancel_download calls in one behaviour
MaxBurst == 16      \* schedule_download calls in one behaviour of SpecBurst
MaxExtra == 2       \* tasks beyond the limit in one behaviour of SpecThrottle
MaxLive == 3        \* schedule_download calls in one behaviour of SpecLive
MaxBulkItems == 5   \* items handed to the BulkDownloader in one behaviour
MaxBulkUrls == 3    \* longest url list of one bulk_download_multiple_urls
MaxStatsCalls == 2  \* get_statistics, reset_statistics and get_queue_status
                    \* calls in one behaviour of SpecStats
MaxStatsTasks == 2  \* schedule_download calls in one behaviour of SpecStats
MaxCallerChanges == 1   \* writes of the caller to a returned dict
MaxRaceTasks == 2   \* schedule_download calls in one behaviour of SpecRace
MaxBatchUrls == 2   \* longest url list of one batch_process_mixed_urls
MaxRetryArg == 5    \* largest max_retries given to smart_retry_mechanism
MaxGuiItems == 2    \* add_download calls in one behaviour of SpecGui
MaxPresses == 4     \* button presses in one behaviour of SpecGui
MaxQueued == 2      \* times one item is queued (added, then retried)
Epoch == 100        \* the clock's value at construction (time.time() is
                    \* far larger than any delay of the program)

(***************************************************************************)
(* Program constants.                                                      *)
(***************************************************************************)
WindowSeconds == 60       \* length of the accounting window
ThrottleSleep == 10       \* execute_downloads: sleep after putting back
InterDownloadSleep == 1   \* execute_downloads: sleep between downloads
SimulatedDownload == 2    \* _execute_download: time.sleep(2)
WorkerErrorSleep == 1     \* _worker_thread: sleep after an exception
MaxRetries == 3           \* config "retry_attempts"

Platforms == {"instagram", "vimeo"}
Priorities == {1, 5}
Urls == <<"u1", "u2">>

(* The platform of the tasks that are scheduled while the worker threads   *)
(* run, and every platform a limiter record may be kept for.               *)
LivePlatform == "tiktok"
AllPlatforms == Platforms \cup {LivePlatform}

(* downloader_map of _execute_single_download: the platforms with a       *)
(* Downloader ("vimeo" stands for any platform that has none).            *)
SchedulerSupported == {"youtube", "tiktok", "instagram", "reddit", "twitter"}

(* _get_platform_rate_limit, and "requests_per_minute" of the limits      *)
(* table of _check_rate_limit (the two tables agree).                     *)
_get_platform_rate_limit(platform) ==
    CASE platform = "youtube" -> 30
      [] platform = "tiktok" -> 20
      [] platform = "instagram" -> 15
      [] platform = "reddit" -> 60
      [] platform = "twitter" -> 25
      [] OTHER -> 30

(* "min_delay" of the limits table of _check_rate_limit, for the          *)
(* platforms whose delay is a whole number of seconds.                    *)
min_delay(platform) ==
    CASE platform = "youtube" -> 1
      [] platform = "tiktok" -> 2
      [] platform = "instagram" -> 3
      [] OTHER -> 1

(* _get_rate_limit_delay: the sleep before a throttled task is re-queued. *)
_get_rate_limit_delay(platform) ==
    CASE platform = "youtube" -> 1
      [] platform = "tiktok" -> 2
      [] platform = "instagram" -> 3
      [] OTHER -> 1

VARIABLES
    now,               \* time.time(), in seconds
    tasks,             \* every download_task dict created, in creation order
    heap,              \* download_queue.queue: the PriorityQueue's heap list
    unfinished,        \* download_queue.unfinished_tasks
    rate_limiters,     \* self.rate_limiters: platform -> record, or NoLimiter
    statistics,        \* self.statistics of the DownloadScheduler
    active_downloads,  \* self.active_downloads: the entries [id, task, worker]
    mode,              \* which dispatch path runs: "none", "seq", "workers"
    seq,               \* execute_downloads: its position and local counters
    seq_result,        \* what execute_downloads returned last
    wpc, wentry, wake, \* each worker thread: position, entry held, wake-up time
    log,               \* history: the dispatches, in order
    hist,              \* history: per task, what happened to it
    cancels,           \* history: the cancel_download calls
    bulk_statistics,   \* self.statistics of the BulkDownloader
    bulk,              \* bulk_download_multiple_urls: position and locals
    bulk_submitted,    \* history: the items handed to the BulkDownloader
    bulk_unsupported,  \* history: those of them of an unsupported platform
    bulk_progress,     \* history: the values given to progress_callback by
                       \* the bulk_download_multiple_urls call under way
    batch,             \* batch_process_mixed_urls: position and locals
    sched,             \* a schedule_download call under way beside the workers
    wload,             \* each worker thread: the value (a counter, the clock)
                       \* it has read in an update it has not written yet
    dict_ids,          \* the identity of the dict each self.statistics is
                       \* bound to, and the number of dicts created
    returned,          \* what the last statistics call gave its caller
    start_report,      \* what the start_scheduler call gave its caller
    retry,             \* smart_retry_mechanism: position, locals and history
    is_downloading,    \* DownloadQueue.is_downloading
    queue_items,       \* DownloadQueue.queue_items: status of each item, and
                       \* history: times queued, times its Downloader ran
    start_button,      \* state of the Start Downloads button
    pause_button,      \* state of the Pause button
    threads,           \* every process_downloads thread started: position
    tk_events,         \* the callbacks given to parent_frame.after(0, ...)
                       \* that the Tk main loop has not run yet, in order
    presses            \* history: the button presses that had an effect

scheduler_vars == <<now, tasks, heap, unfinished, rate_limiters, statistics,
                    active_downloads, mode, seq, seq_result, wpc, wentry,
                    wake, log, hist, cancels>>

bulk_vars == <<bulk_statistics, bulk, bulk_submitted, bulk_unsupported,
               bulk_progress, batch>>

live_vars == <<sched, wload>>

caller_vars == <<dict_ids, returned, start_report>>

retry_vars == <<retry>>

gui_vars == <<is_downloading, queue_items, start_button, pause_button,
              threads, tk_events, presses>>

other_vars == <<retry_vars, gui_vars>>

core_vars == <<scheduler_vars, bulk_vars, live_vars, caller_vars>>

vars == <<core_vars, other_vars>>

Workers == 1..MaxWorkers
NoLimiter == [schema |-> "none"]
NoTask == 0
NoEntry == [priority |-> 0, task |-> NoTask]
NoResult == [success |-> "none"]

(***************************************************************************)
(* The PriorityQueue.  Its entries are the tuples (priority, task dict),   *)
(* here [priority, task] with the task's index in tasks.                   *)
(***************************************************************************)

(* (p1, d1) < (p2, d2) on tuples: the priorities decide when they differ;  *)
(* with equal priorities the dicts are compared: a dict is equal to itself *)
(* (so the tuple is not less), two different task dicts differ (their      *)
(* scheduled_time does) and dict < dict raises TypeError.                  *)
entry_lt(a, b) ==
    IF a.priority # b.priority
    THEN IF a.priority < b.priority THEN "lt" ELSE "ge"
    ELSE IF a.task = b.task THEN "ge" ELSE "TypeError"

Swap(h, i, j) == [h EXCEPT ![i] = h[j], ![j] = h[i]]

(* heapq's siftdown (_heapq, the C implementation CPython uses): the entry *)
(* at pos moves towards startpos while it is less than its parent; a       *)
(* comparison that raises leaves the list as it is at that moment.         *)
RECURSIVE siftdown(_, _, _)
siftdown(h, startpos, pos) ==
    IF pos <= startpos THEN [h |-> h, err |-> FALSE]
    ELSE LET parentpos == pos \div 2
             c == entry_lt(h[pos], h[parentpos])
         IN  IF c = "TypeError" THEN [h |-> h, err |-> TRUE]
             ELSE IF c = "ge" THEN [h |-> h, err |-> FALSE]
             ELSE siftdown(Swap(h, pos, parentpos), startpos, parentpos)

(* heapq's siftup, first loop: the smaller child moves up until a leaf is  *)
(* reached.                                                                *)
RECURSIVE siftup_leaf(_, _)
siftup_leaf(h, pos) ==
    IF pos > Len(h) \div 2 THEN [h |-> h, pos |-> pos, err |-> FALSE]
    ELSE LET l == 2 * pos
             r == 2 * pos + 1
         IN  IF r <= Len(h)
             THEN LET c == entry_lt(h[l], h[r])
                  IN  IF c = "TypeError"
                      THEN [h |-> h, pos |-> pos, err |-> TRUE]
                      ELSE LET child == IF c = "lt" THEN l ELSE r
                           IN  siftup_leaf(Swap(h, child, pos), child)
             ELSE siftup_leaf(Swap(h, l, pos), l)

siftup(h) ==
    LET s == siftup_leaf(h, 1)
    IN  IF s.err THEN [h |-> s.h, err |-> TRUE]
        ELSE siftdown(s.h, 1, s.pos)

(* heapq.heappush: the entry is appended, then sifted; it stays in the     *)
(* list when a comparison raises.                                          *)
heappush(h, e) == siftdown(Append(h, e), 1, Len(h) + 1)

(* heapq.heappop of a non-empty list: the last entry replaces the first    *)
(* and is sifted; when a comparison raises, the entry that was first is    *)
(* returned to nobody.                                                     *)
heappop(h) ==
    LET n == Len(h)
        lastelt == h[n]
        rest == SubSeq(h, 1, n - 1)
    IN  IF n = 1 THEN [h |-> <<>>, err |-> FALSE, item |-> lastelt]
        ELSE LET s == siftup([rest EXCEPT ![1] = lastelt])
             IN  [h |-> s.h, err |-> s.err,
                  item |-> IF s.err THEN NoEntry ELSE h[1]]

(* Queue.put: _put, then unfinished_tasks += 1 (and notify); the count is  *)
(* not reached when _put raises.                                           *)
queue_put(h, u, e) ==
    LET p == heappush(h, e)
    IN  [h |-> p.h, err |-> p.err,
         unfinished |-> IF p.err THEN u ELSE u + 1]

(***************************************************************************)
(* The rate limiter records.  schedule_download creates a record with the  *)
(* keys last_request, request_count, window_start and                      *)
(* max_requests_per_minute (schema "sched"); _check_rate_limit creates one *)
(* with the keys last_request, requests_this_minute and minute_start       *)
(* (schema "worker").  count stands for request_count or                   *)
(* requests_this_minute, window_start for window_start or minute_start;    *)
(* reading a key of the other schema raises KeyError.                      *)
(***************************************************************************)
new_limiter(schema, t) ==
    [schema |-> schema, last_request |-> 0, count |-> 0, window_start |-> t]

(* _should_rate_limit: the decision of execute_downloads.  Any exception   *)
(* (the KeyError of a "worker" record) is caught and answers False.        *)
_should_rate_limit(rl, platform, t) ==
    LET limiter == rl[platform]
    IN  IF limiter.schema = "none" THEN [rl |-> rl, limited |-> FALSE]
        ELSE IF limiter.schema = "worker" THEN [rl |-> rl, limited |-> FALSE]
        ELSE LET reset == t - limiter.window_start >= WindowSeconds
                 lim == IF reset
                        THEN [limiter EXCEPT !.count = 0, !.window_start = t]
                        ELSE limiter
             IN  [rl |-> [rl EXCEPT ![platform] = lim],
                  limited |-> lim.count >= _get_platform_rate_limit(platform)]

(* _update_rate_limiter: called by execute_downloads after a download that *)
(* reported success.  On a "worker" record request_count += 1 raises       *)
(* KeyError before anything is written; the exception is caught.           *)
_update_rate_limiter(rl, platform, t) ==
    IF rl[platform].schema = "sched"
    THEN [rl EXCEPT ![platform].count = @ + 1, ![platform].last_request = t]
    ELSE rl

(* _check_rate_limit: the decision of the worker threads.  On a "sched"    *)
(* record limiter['minute_start'] raises KeyError: the handler answers     *)
(* True ("allow download on error") and the record is left as it was.      *)
_check_rate_limit(rl, platform, t) ==
    LET created == IF rl[platform].schema = "none"
                   THEN [rl EXCEPT ![platform] = new_limiter("worker", t)]
                   ELSE rl
        limiter == created[platform]
    IN  IF limiter.schema = "sched"
        THEN [rl |-> rl, allowed |-> TRUE, on_error |-> TRUE]
        ELSE LET reset == t - limiter.window_start >= WindowSeconds
                 lim == IF reset
                        THEN [limiter EXCEPT !.count = 0, !.window_start = t]
                        ELSE limiter
                 after == [created EXCEPT ![platform] = lim]
             IN  IF lim.count >= _get_platform_rate_limit(platform)
                 THEN [rl |-> after, allowed |-> FALSE, on_error |-> FALSE]
                 ELSE IF t - lim.last_request < min_delay(platform)
                 THEN [rl |-> after, allowed |-> FALSE, on_error |-> FALSE]
                 ELSE [rl |-> [after EXCEPT ![platform].last_request = t,
                                            ![platform].count = @ + 1],
                       allowed |-> TRUE, on_error |-> FALSE]

(***************************************************************************)
(* Init: the state after DownloadScheduler.__init__ and                    *)
(* BulkDownloader.__init__.                                                *)
(***************************************************************************)
SchedIdle == [pc |-> "idle", platform |-> "none"]

BulkIdle == [pc |-> "idle", total_urls |-> 0, pending |-> 0,
             completed |-> 0, failed |-> 0, results |-> 0, invoked |-> 0]

(* batch_process_mixed_urls: i urls are done; platform is the one detected *)
(* for the url in hand, result the 'success' of the result returned for    *)
(* it.  History: reported says whether the Downloader invoked for that url *)
(* reported success, miscounted counts the urls counted as successful      *)
(* whose Downloader did not, progress holds the values given to            *)
(* progress_callback.                                                      *)
BatchIdle == [pc |-> "idle", total_urls |-> 0, i |-> 0, processed |-> 0,
              successful |-> 0, failed |-> 0, platform |-> "none",
              result |-> FALSE, reported |-> FALSE, miscounted |-> 0,
              progress |-> <<>>]

(* A dict is an object: dict 1 is the one BulkDownloader.__init__ binds to *)
(* self.statistics, dict 2 the one DownloadScheduler.__init__ binds.       *)
NoDict == [dict |-> 0, items |-> <<>>]
NothingReturned == [value |-> NoDict, of |-> "none", changes |-> 0]
NotStarted == [called |-> FALSE]

(* smart_retry_mechanism: attempt is the loop variable.  History: calls    *)
(* holds what each call of download_func did, slept the seconds of         *)
(* time.sleep so far, returned what the mechanism gave its caller.         *)
RetryIdle == [pc |-> "idle", max_retries |-> 0, attempt |-> 0,
              calls |-> <<>>, slept |-> 0, returned |-> "nothing"]

Init ==
    /\ bulk_statistics = [total_requested |-> 0, total_completed |-> 0,
                          total_failed |-> 0]
    /\ bulk = BulkIdle
    /\ bulk_submitted = 0
    /\ bulk_unsupported = 0
    /\ bulk_progress = <<>>
    /\ batch = BatchIdle
    /\ sched = SchedIdle
    /\ wload = [w \in Workers |-> 0]
    /\ dict_ids = [bulk_statistics |-> 1, statistics |-> 2, created |-> 2]
    /\ returned = NothingReturned
    /\ start_report = NotStarted
    /\ retry = RetryIdle
    /\ is_downloading = FALSE
    /\ queue_items = <<>>
    /\ start_button = "normal"
    /\ pause_button = "disabled"
    /\ threads = <<>>
    /\ tk_events = <<>>
    /\ presses = <<>>
    /\ now = Epoch
    /\ tasks = <<>>
    /\ heap = <<>>
    /\ unfinished = 0
    /\ rate_limiters = [p \in AllPlatforms |-> NoLimiter]
    /\ statistics = [total_downloads |-> 0, successful_downloads |-> 0,
                     failed_downloads |-> 0]
    /\ active_downloads = {}
    /\ mode = "none"
    /\ seq = [pc |-> "idle", executed |-> 0, successful |-> 0, failed |-> 0]
    /\ seq_result = NoResult
    /\ wpc = [w \in Workers |-> "off"]
    /\ wentry = [w \in Workers |-> NoEntry]
    /\ wake = [w \in Workers |-> 0]
    /\ log = <<>>
    /\ hist = <<>>
    /\ cancels = <<>>

(***************************************************************************)
(* schedule_download                                                       *)
(***************************************************************************)

(* download_id: platform, int(time.time()) and hash(url) % 10000.          *)
download_id(platform, second, url) == <<platform, second, url>>

(* The model follows the runs in which every schedule_download call comes  *)
(* before execute_downloads or start_scheduler is called.                  *)
(* The task dict is built, the entry is put, and the platform's limiter    *)
(* record is created if there is none.  When put raises (TypeError), the   *)
(* handler returns None: the entry is in the heap list all the same, and   *)
(* the limiter record is not created.                                      *)
schedule_download(url, platform, priority) ==
    /\ mode = "none"
    /\ LET t == Len(tasks) + 1
           task == [id |-> download_id(platform, now, url),
                    url |-> url, platform |-> platform,
                    retry_count |-> 0, status |-> "scheduled"]
           p == queue_put(heap, unfinished,
                          [priority |-> priority, task |-> t])
       IN  /\ tasks' = Append(tasks, task)
           /\ heap' = p.h
           /\ unfinished' = p.unfinished
           /\ rate_limiters' =
                IF ~p.err /\ rate_limiters[platform].schema = "none"
                THEN [rate_limiters EXCEPT
                        ![platform] = new_limiter("sched", now)]
                ELSE rate_limiters
           /\ hist' = Append(hist, [priority |-> priority,
                                    returned_id |-> ~p.err,
                                    attempts |-> 0, outcome |-> "no",
                                    throttled |-> FALSE, waiting |-> {},
                                    behind |-> {},
                                    pulled |-> 0,
                                    cancelled_queued |-> FALSE])
    /\ UNCHANGED bulk_vars
    /\ UNCHANGED other_vars
    /\ UNCHANGED live_vars
    /\ UNCHANGED caller_vars
    /\ UNCHANGED <<now, statistics, active_downloads, mode, seq,
                   seq_result, wpc, wentry, wake, log, cancels>>

(* schedule_download called while the worker threads run, in its two      *)
(* steps: the task dict is built and the entry is put (line 49); then,    *)
(* unless put raised, the platform's limiter record is created if there   *)
(* is none (lines 51-58).  A worker thread may get the entry and call     *)
(* _check_rate_limit between the two.                                     *)
schedule_download_put(url, platform, priority) ==
    /\ mode = "workers"
    /\ sched.pc = "idle"
    /\ LET t == Len(tasks) + 1
           task == [id |-> download_id(platform, now, url),
                    url |-> url, platform |-> platform,
                    retry_count |-> 0, status |-> "scheduled"]
           p == queue_put(heap, unfinished,
                          [priority |-> priority, task |-> t])
       IN  /\ tasks' = Append(tasks, task)
           /\ heap' = p.h
           /\ unfinished' = p.unfinished
           /\ sched' = IF p.err THEN SchedIdle
                       ELSE [pc |-> "limiter", platform |-> platform]
           /\ hist' = Append(hist, [priority |-> priority,
                                    returned_id |-> ~p.err,
                                    attempts |-> 0, outcome |-> "no",
                                    throttled |-> FALSE, waiting |-> {},
                                    behind |-> {},
                                    pulled |-> 0,
                                    cancelled_queued |-> FALSE])
    /\ UNCHANGED bulk_vars
    /\ UNCHANGED other_vars
    /\ UNCHANGED caller_vars
    /\ UNCHANGED <<now, rate_limiters, statistics, active_downloads, mode,
                   seq, seq_result, wpc, wentry, wake, log, cancels, wload>>

schedule_download_limiter ==
    /\ sched.pc = "limiter"
    /\ rate_limiters' =
         IF rate_limiters[sched.platform].schema = "none"
         THEN [rate_limiters EXCEPT
                 ![sched.platform] = new_limiter("sched", now)]
         ELSE rate_limiters
    /\ sched' = SchedIdle
    /\ UNCHANGED bulk_vars
    /\ UNCHANGED other_vars
    /\ UNCHANGED caller_vars
    /\ UNCHANGED <<now, tasks, heap, unfinished, statistics,
                   active_downloads, mode, seq, seq_result, wpc, wentry,
                   wake, log, hist, cancels, wload>>

(* History: the start of the platform's accounting window as the limiter   *)
(* record has it when a dispatch is decided at time t.                     *)
window_of(rl, platform, t) ==
    IF rl[platform].schema = "none" THEN t ELSE rl[platform].window_start

(* History: the tasks of other platforms that are in the heap list h and   *)
(* that the dispatch path's own check, asked at this moment with the       *)
(* limiter records rl, would let through.                                  *)
AdmittedWaiting(h, rl, platform, t, path) ==
    {h[i].task : i \in
        {k \in 1..Len(h) :
            LET other == tasks[h[k].task].platform
            IN  /\ other # platform
                /\ IF path = "seq"
                   THEN ~_should_rate_limit(rl, other, t).limited
                   ELSE _check_rate_limit(rl, other, t).allowed}}

(* History: the tasks of t's platform that are not dispatched yet and      *)
(* whose place is behind t's: a larger priority number, or the same        *)
(* priority and a later submission.                                        *)
BehindInLine(t) ==
    {u \in DOMAIN tasks :
        /\ tasks[u].platform = tasks[t].platform
        /\ \/ hist[u].priority > hist[t].priority
           \/ (hist[u].priority = hist[t].priority /\ u > t)
        /\ \A i \in DOMAIN log : log[i].task # u}

(* History: the number the next entry got from the queue receives; a task  *)
(* keeps the number of the last get that returned it.                      *)
NextPull ==
    LET S == {0} \cup {hist[t].pulled : t \in DOMAIN hist}
    IN  1 + (CHOOSE x \in S : \A y \in S : y <= x)

(***************************************************************************)
(* execute_downloads: the sequential dispatch path.                        *)
(***************************************************************************)
execute_downloads ==
    /\ mode \in {"none", "seq"}
    /\ seq.pc = "idle"
    /\ mode' = "seq"
    /\ seq' = [pc |-> "loop", executed |-> 0, successful |-> 0, failed |-> 0]
    /\ UNCHANGED bulk_vars
    /\ UNCHANGED other_vars
    /\ UNCHANGED live_vars
    /\ UNCHANGED caller_vars
    /\ UNCHANGED <<now, tasks, heap, unfinished, rate_limiters, statistics,
                   active_downloads, seq_result, wpc, wentry, wake, log,
                   hist, cancels>>

(* _execute_single_download: a platform outside downloader_map gets a      *)
(* failure result and no Downloader is called; otherwise the Downloader    *)
(* is called, and an exception it (or the callback) raises is turned into  *)
(* a failure result.                                                       *)
_execute_single_download(task, outcome) ==
    IF task.platform \notin SchedulerSupported
    THEN [success |-> FALSE, invoked |-> FALSE]
    ELSE [success |-> outcome = "success", invoked |-> TRUE]

Outcomes == {"success", "failure", "raise"}

(* A result that lets its failure leave the loop of execute_downloads.     *)
count_result_aborting(s, r) ==
    IF r.success
    THEN [s EXCEPT !.executed = @ + 1, !.successful = @ + 1]
    ELSE [s EXCEPT !.pc = "idle"]

(* execute_downloads, lines 131-138: the result is counted in the local    *)
(* counters, and the loop goes on.                                         *)
count_result(s, r) ==
    [s EXCEPT !.executed = @ + 1,
              !.successful = IF r.success THEN @ + 1 ELSE @,
              !.failed = IF r.success THEN @ ELSE @ + 1]

(* One pass of the while loop of execute_downloads, from the test of       *)
(* download_queue.empty() to the sleep that ends the pass.  An exception   *)
(* of get or put leaves the loop through the outer handler.                *)
execute_downloads_pass(outcome) ==
    /\ mode = "seq"
    /\ seq.pc = "loop"
    /\ UNCHANGED bulk_vars
    /\ UNCHANGED other_vars
    /\ UNCHANGED live_vars
    /\ UNCHANGED caller_vars
    /\ UNCHANGED <<tasks, statistics, active_downloads, mode, wpc, wentry,
                   wake, cancels>>
    /\ IF heap = <<>>
       THEN /\ seq' = [seq EXCEPT !.pc = "idle"]
            /\ seq_result' = [success |-> TRUE, executed |-> seq.executed,
                              successful |-> seq.successful,
                              failed |-> seq.failed]
            /\ UNCHANGED <<now, heap, unfinished, rate_limiters, log, hist>>
       ELSE LET g == heappop(heap) IN
            IF g.err
            THEN /\ heap' = g.h
                 /\ seq' = [seq EXCEPT !.pc = "idle"]
                 /\ seq_result' = [success |-> FALSE]
                 /\ UNCHANGED <<now, unfinished, rate_limiters, log, hist>>
            ELSE LET t == g.item.task
                     platform == tasks[t].platform
                     s == _should_rate_limit(rate_limiters, platform, now)
                 IN  IF s.limited
                     THEN LET p == queue_put(g.h, unfinished, g.item) IN
                          /\ heap' = p.h
                          /\ unfinished' = p.unfinished
                          /\ rate_limiters' = s.rl
                          /\ hist' = [hist EXCEPT
                               ![t].throttled = TRUE,
                               ![t].waiting = @ \cup AdmittedWaiting(
                                   g.h, s.rl, platform, now, "seq"),
                               ![t].behind = @ \cup BehindInLine(t),
                               ![t].pulled = NextPull]
                          /\ log' = log
                          /\ IF p.err
                             THEN /\ seq' = [seq EXCEPT !.pc = "idle"]
                                  /\ seq_result' = [success |-> FALSE]
                                  /\ now' = now
                             ELSE /\ now' = now + ThrottleSleep
                                  /\ UNCHANGED <<seq, seq_result>>
                     ELSE LET r == _execute_single_download(tasks[t], outcome)
                          IN
                          /\ heap' = g.h
                          /\ unfinished' = unfinished
                          /\ rate_limiters' =
                               IF r.success
                               THEN _update_rate_limiter(s.rl, platform, now)
                               ELSE s.rl
                          /\ seq' = count_result(seq, r)
                          /\ log' = Append(log,
                               [task |-> t, time |-> now, path |-> "seq",
                                on_error |->
                                    rate_limiters[platform].schema = "worker",
                                window_start |->
                                    window_of(s.rl, platform, now)])
                          /\ hist' = [hist EXCEPT
                               ![t].pulled = NextPull,
                               ![t].attempts =
                                   IF r.invoked THEN @ + 1 ELSE @,
                               ![t].outcome =
                                   IF r.success THEN "success" ELSE "failure"]
                          /\ now' = now + InterDownloadSleep
                          /\ UNCHANGED seq_result

(***************************************************************************)
(* start_scheduler and the worker threads: the concurrent dispatch path.   *)
(***************************************************************************)

(* range(max_concurrent) threads are started; with 0 none is, and the call *)
(* logs the start all the same.                                            *)
start_scheduler(max_concurrent) ==
    /\ mode = "none"
    /\ mode' = "workers"
    /\ wpc' = [w \in Workers |-> IF w <= max_concurrent THEN "get" ELSE "off"]
    /\ start_report' = [called |-> TRUE, max_concurrent |-> max_concurrent,
                        value |-> "None", logged |-> "info"]
    /\ UNCHANGED bulk_vars
    /\ UNCHANGED other_vars
    /\ UNCHANGED live_vars
    /\ UNCHANGED <<dict_ids, returned>>
    /\ UNCHANGED <<now, tasks, heap, unfinished, rate_limiters, statistics,
                   active_downloads, seq, seq_result, wentry, wake, log,
                   hist, cancels>>

(* _worker_thread: download_queue.get().  It blocks while the queue is     *)
(* empty; a TypeError of the heap is caught by the loop's handler, which   *)
(* sleeps and starts the loop again.                                       *)
worker_get(w) ==
    /\ wpc[w] = "get"
    /\ heap # <<>>
    /\ LET g == heappop(heap) IN
       /\ heap' = g.h
       /\ IF g.err
          THEN /\ wpc' = [wpc EXCEPT ![w] = "error_sleep"]
               /\ wake' = [wake EXCEPT ![w] = now + WorkerErrorSleep]
               /\ wentry' = [wentry EXCEPT ![w] = NoEntry]
               /\ hist' = hist
          ELSE /\ wpc' = [wpc EXCEPT ![w] = "check"]
               /\ wentry' = [wentry EXCEPT ![w] = g.item]
               /\ wake' = wake
               /\ hist' = [hist EXCEPT ![g.item.task].pulled = NextPull]
    /\ UNCHANGED bulk_vars
    /\ UNCHANGED other_vars
    /\ UNCHANGED live_vars
    /\ UNCHANGED caller_vars
    /\ UNCHANGED <<now, tasks, unfinished, rate_limiters, statistics,
                   active_downloads, mode, seq, seq_result, log, cancels>>

(* _worker_thread: the call of _check_rate_limit.  Admitted, the worker    *)
(* goes on to _execute_download; denied, it sleeps before re-queueing.     *)
worker_check(w) ==
    /\ wpc[w] = "check"
    /\ LET t == wentry[w].task
           platform == tasks[t].platform
           c == _check_rate_limit(rate_limiters, platform, now)
       IN  /\ rate_limiters' = c.rl
           /\ IF c.allowed
              THEN /\ wpc' = [wpc EXCEPT ![w] = "execute"]
                   /\ wake' = [wake EXCEPT ![w] = 0]
                   /\ log' = Append(log,
                        [task |-> t, time |-> now, path |-> "worker",
                         on_error |-> c.on_error,
                         window_start |-> window_of(c.rl, platform, now)])
              ELSE /\ wpc' = [wpc EXCEPT ![w] = "requeue"]
                   /\ wake' = [wake EXCEPT
                        ![w] = now + _get_rate_limit_delay(platform)]
                   /\ log' = log
           /\ hist' = [hist EXCEPT
                        ![t].throttled = IF c.allowed THEN @ ELSE TRUE,
                        ![t].waiting =
                            IF c.allowed THEN @
                            ELSE @ \cup AdmittedWaiting(
                                     heap, c.rl, platform, now, "worker"),
                        ![t].behind =
                            IF c.allowed THEN @ ELSE @ \cup BehindInLine(t)]
    /\ UNCHANGED bulk_vars
    /\ UNCHANGED other_vars
    /\ UNCHANGED live_vars
    /\ UNCHANGED caller_vars
    /\ UNCHANGED <<now, tasks, heap, unfinished, statistics,
                   active_downloads, mode, seq, seq_result, wentry, cancels>>

(* _worker_thread: after the sleep, download_queue.put of the entry, and   *)
(* continue (task_done is not called).  A TypeError of put is caught by    *)
(* the loop's handler.                                                     *)
worker_requeue(w) ==
    /\ wpc[w] = "requeue"
    /\ now >= wake[w]
    /\ LET p == queue_put(heap, unfinished, wentry[w]) IN
       /\ heap' = p.h
       /\ unfinished' = p.unfinished
       /\ wentry' = [wentry EXCEPT ![w] = NoEntry]
       /\ IF p.err
          THEN /\ wpc' = [wpc EXCEPT ![w] = "error_sleep"]
               /\ wake' = [wake EXCEPT ![w] = now + WorkerErrorSleep]
          ELSE /\ wpc' = [wpc EXCEPT ![w] = "get"]
               /\ wake' = [wake EXCEPT ![w] = 0]
    /\ UNCHANGED bulk_vars
    /\ UNCHANGED other_vars
    /\ UNCHANGED live_vars
    /\ UNCHANGED caller_vars
    /\ UNCHANGED <<now, tasks, rate_limiters, statistics, active_downloads,
                   mode, seq, seq_result, log, hist, cancels>>

(* _check_rate_limit holds no lock.  The record as it is once the thread   *)
(* has created it if absent and reset its window if over, before the two   *)
(* conditions are read.                                                    *)
limiter_checked(rl, platform, t) ==
    LET created == IF rl[platform].schema = "none"
                   THEN [rl EXCEPT ![platform] = new_limiter("worker", t)]
                   ELSE rl
        limiter == created[platform]
    IN  IF t - limiter.window_start >= WindowSeconds
        THEN [created EXCEPT ![platform].count = 0,
                             ![platform].window_start = t]
        ELSE created

(* _check_rate_limit up to its "Update rate limiter" lines, when both      *)
(* conditions let the request through: the thread holds current_time and   *)
(* has written nothing of the admission yet; another thread may run.       *)
worker_check_read(w) ==
    /\ wpc[w] = "check"
    /\ LET platform == tasks[wentry[w].task].platform
           c == _check_rate_limit(rate_limiters, platform, now)
       IN  /\ c.allowed
           /\ ~c.on_error
           /\ rate_limiters' = limiter_checked(rate_limiters, platform, now)
    /\ wload' = [wload EXCEPT ![w] = now]
    /\ wpc' = [wpc EXCEPT ![w] = "admit"]
    /\ UNCHANGED bulk_vars
    /\ UNCHANGED other_vars
    /\ UNCHANGED caller_vars
    /\ UNCHANGED sched
    /\ UNCHANGED <<now, tasks, heap, unfinished, statistics,
                   active_downloads, mode, seq, seq_result, wentry, wake,
                   log, hist, cancels>>

(* The rest of that _check_rate_limit call: last_request and               *)
(* requests_this_minute are written, True is returned and the worker goes  *)
(* on to _execute_download.                                                *)
worker_check_write(w) ==
    /\ wpc[w] = "admit"
    /\ LET t == wentry[w].task
           platform == tasks[t].platform
           rl == [rate_limiters EXCEPT ![platform].last_request = wload[w],
                                       ![platform].count = @ + 1]
       IN  /\ rate_limiters' = rl
           /\ log' = Append(log,
                [task |-> t, time |-> wload[w], path |-> "worker",
                 on_error |-> FALSE,
                 window_start |-> window_of(rl, platform, wload[w])])
    /\ wload' = [wload EXCEPT ![w] = 0]
    /\ wpc' = [wpc EXCEPT ![w] = "execute"]
    /\ UNCHANGED bulk_vars
    /\ UNCHANGED other_vars
    /\ UNCHANGED caller_vars
    /\ UNCHANGED sched
    /\ UNCHANGED <<now, tasks, heap, unfinished, statistics,
                   active_downloads, mode, seq, seq_result, wentry, wake,
                   hist, cancels>>

(* self.active_downloads[id] = {...}: an entry of the same id is replaced. *)
active_put(ad, id, t, w) ==
    {a \in ad : a.id # id} \cup {[id |-> id, task |-> t, worker |-> w]}

ActiveIds == {a.id : a \in active_downloads}

(* _execute_download up to its time.sleep(2): total_downloads is counted   *)
(* and the download is entered in active_downloads.                        *)
worker_execute_start(w) ==
    /\ wpc[w] = "execute"
    /\ LET t == wentry[w].task IN
       /\ statistics' = [statistics EXCEPT !.total_downloads = @ + 1]
       /\ active_downloads' =
            active_put(active_downloads, tasks[t].id, t, w)
    /\ wpc' = [wpc EXCEPT ![w] = "downloading"]
    /\ wake' = [wake EXCEPT ![w] = now + SimulatedDownload]
    /\ UNCHANGED bulk_vars
    /\ UNCHANGED other_vars
    /\ UNCHANGED live_vars
    /\ UNCHANGED caller_vars
    /\ UNCHANGED <<now, tasks, heap, unfinished, rate_limiters, mode, seq,
                   seq_result, wentry, log, hist, cancels>>

(* self.statistics['total_downloads'] += 1 as the interpreter runs it: the *)
(* item is read, one is added, the sum is stored; no lock is held and      *)
(* another thread may run between the read and the store.                  *)
worker_execute_load(w) ==
    /\ wpc[w] = "execute"
    /\ wload' = [wload EXCEPT ![w] = statistics.total_downloads]
    /\ wpc' = [wpc EXCEPT ![w] = "store"]
    /\ UNCHANGED bulk_vars
    /\ UNCHANGED other_vars
    /\ UNCHANGED caller_vars
    /\ UNCHANGED sched
    /\ UNCHANGED <<now, tasks, heap, unfinished, rate_limiters, statistics,
                   active_downloads, mode, seq, seq_result, wentry, wake,
                   log, hist, cancels>>

(* The store of that +=, and _execute_download up to its time.sleep(2).    *)
worker_execute_store(w) ==
    /\ wpc[w] = "store"
    /\ LET t == wentry[w].task IN
       /\ statistics' = [statistics EXCEPT !.total_downloads = wload[w] + 1]
       /\ active_downloads' =
            active_put(active_downloads, tasks[t].id, t, w)
    /\ wload' = [wload EXCEPT ![w] = 0]
    /\ wpc' = [wpc EXCEPT ![w] = "downloading"]
    /\ wake' = [wake EXCEPT ![w] = now + SimulatedDownload]
    /\ UNCHANGED bulk_vars
    /\ UNCHANGED other_vars
    /\ UNCHANGED caller_vars
    /\ UNCHANGED sched
    /\ UNCHANGED <<now, tasks, heap, unfinished, rate_limiters, mode, seq,
                   seq_result, wentry, log, hist, cancels>>

CallbackOutcomes == {"returns", "raises"}

(* Queue.task_done: ValueError when unfinished_tasks is already 0.         *)
task_done(u) ==
    IF u <= 0 THEN [unfinished |-> u, err |-> TRUE]
    ELSE [unfinished |-> u - 1, err |-> FALSE]

(* _execute_download after the sleep: the simulated result is a success    *)
(* and is counted; the callback (if any) is called; the entry is deleted   *)
(* from active_downloads.  An exception of the callback, or the KeyError   *)
(* of del when the entry is gone, is caught by the handler of              *)
(* _execute_download, which counts a failed download.  Back in             *)
(* _worker_thread, task_done is called.                                    *)
worker_execute_finish(w, callback) ==
    /\ wpc[w] = "downloading"
    /\ now >= wake[w]
    /\ LET t == wentry[w].task
           id == tasks[t].id
           raised == callback = "raises" \/ id \notin ActiveIds
           d == task_done(unfinished)
       IN  /\ statistics' = [statistics EXCEPT
                !.successful_downloads = @ + 1,
                !.failed_downloads = IF raised THEN @ + 1 ELSE @]
           /\ active_downloads' =
                IF callback = "raises" THEN active_downloads
                ELSE {a \in active_downloads : a.id # id}
           /\ hist' = [hist EXCEPT ![t].outcome = "success"]
           /\ unfinished' = d.unfinished
           /\ wentry' = [wentry EXCEPT ![w] = NoEntry]
           /\ IF d.err
              THEN /\ wpc' = [wpc EXCEPT ![w] = "error_sleep"]
                   /\ wake' = [wake EXCEPT ![w] = now + WorkerErrorSleep]
              ELSE /\ wpc' = [wpc EXCEPT ![w] = "get"]
                   /\ wake' = [wake EXCEPT ![w] = 0]
    /\ UNCHANGED bulk_vars
    /\ UNCHANGED other_vars
    /\ UNCHANGED live_vars
    /\ UNCHANGED caller_vars
    /\ UNCHANGED <<now, tasks, heap, rate_limiters, mode, seq, seq_result,
                   log, cancels>>

(* _worker_thread: the handler's time.sleep(1) is over.                    *)
worker_error_wake(w) ==
    /\ wpc[w] = "error_sleep"
    /\ now >= wake[w]
    /\ wpc' = [wpc EXCEPT ![w] = "get"]
    /\ wake' = [wake EXCEPT ![w] = 0]
    /\ UNCHANGED bulk_vars
    /\ UNCHANGED other_vars
    /\ UNCHANGED live_vars
    /\ UNCHANGED caller_vars
    /\ UNCHANGED <<now, tasks, heap, unfinished, rate_limiters, statistics,
                   active_downloads, mode, seq, seq_result, wentry, log,
                   hist, cancels>>

(***************************************************************************)
(* cancel_download                                                         *)
(***************************************************************************)
InHeap(t) == \E i \in 1..Len(heap) : heap[i].task = t

(* Where a task is in its life (history only; the task dict's own status   *)
(* key is tasks[t].status).                                                *)
TaskPhase(t) ==
    IF hist[t].outcome # "no" THEN "finished"
    ELSE IF \E w \in Workers : wentry[w].task = t /\ wpc[w] = "downloading"
    THEN "running"
    ELSE IF \E w \in Workers : wentry[w].task = t THEN "pulled"
    ELSE IF InHeap(t) THEN "scheduled"
    ELSE "dropped"

UnknownId == <<"unknown", 0, "u1">>

(* An entry of active_downloads with this id is deleted; every call        *)
(* returns True.                                                           *)
cancel_download(id) ==
    /\ Len(cancels) < MaxCancels
    /\ active_downloads' = {a \in active_downloads : a.id # id}
    /\ cancels' = Append(cancels,
         [returned |-> TRUE,
          phases |-> {TaskPhase(t) : t \in {u \in DOMAIN tasks :
                                              tasks[u].id = id}},
          removed |-> id \in ActiveIds])
    /\ hist' = [t \in DOMAIN hist |->
                  IF tasks[t].id = id /\ TaskPhase(t) = "scheduled"
                  THEN [hist[t] EXCEPT !.cancelled_queued = TRUE]
                  ELSE hist[t]]
    /\ UNCHANGED bulk_vars
    /\ UNCHANGED other_vars
    /\ UNCHANGED live_vars
    /\ UNCHANGED caller_vars
    /\ UNCHANGED <<now, tasks, heap, unfinished, rate_limiters, statistics,
                   mode, seq, seq_result, wpc, wentry, wake, log>>

(***************************************************************************)
(* The clock, and the specification.                                       *)
(***************************************************************************)
Sleeping(w) ==
    wpc[w] \in {"requeue", "downloading", "error_sleep"} /\ now < wake[w]

Blocked(w) == wpc[w] = "off" \/ (wpc[w] = "get" /\ heap = <<>>)

(* A second passes.  The clock is followed while worker threads sleep and  *)
(* no other worker thread can take a step: a thread that can run does so   *)
(* before the next second starts.  The sequential loop advances the clock  *)
(* by its own sleeps.                                                      *)
Tick ==
    /\ \E w \in Workers : Sleeping(w)
    /\ \A w \in Workers : Sleeping(w) \/ Blocked(w)
    /\ now' = now + 1
    /\ UNCHANGED bulk_vars
    /\ UNCHANGED other_vars
    /\ UNCHANGED live_vars
    /\ UNCHANGED caller_vars
    /\ UNCHANGED <<tasks, heap, unfinished, rate_limiters, statistics,
                   active_downloads, mode, seq, seq_result, wpc, wentry,
                   wake, log, hist, cancels>>

(* The urls a schedule_download call is tried with: those already used    *)
(* and one new one (which new one makes no difference).                   *)
FreshUrls ==
    LET used == {tasks[t].url : t \in DOMAIN tasks}
        k == Cardinality(used)
    IN  used \cup (IF k < Len(Urls) THEN {Urls[k + 1]} ELSE {})

Next ==
    \/ /\ Len(tasks) < MaxTasks
       /\ \E url \in FreshUrls, platform \in Platforms,
             priority \in Priorities :
             schedule_download(url, platform, priority)
    \/ execute_downloads
    \/ \E outcome \in Outcomes : execute_downloads_pass(outcome)
    \/ \E n \in 0..MaxWorkers : start_scheduler(n)
    \/ \E w \in Workers :
          \/ worker_get(w)
          \/ worker_check(w)
          \/ worker_requeue(w)
          \/ worker_execute_start(w)
          \/ \E callback \in CallbackOutcomes :
                worker_execute_finish(w, callback)
          \/ worker_error_wake(w)
    \/ \E id \in {tasks[t].id : t \in DOMAIN tasks} \cup {UnknownId} :
          cancel_download(id)
    \/ Tick

Spec == Init /\ [][Next]_vars

(***************************************************************************)
(* A burst: more tasks of one platform than its per-minute limit, each     *)
(* with a priority of its own (so that no two queue entries compare their  *)
(* task dicts), handed to the worker threads.  Every callback returns.     *)
(***************************************************************************)
BurstPlatform == "instagram"

NextBurst ==
    \/ /\ Len(tasks) < MaxBurst
       /\ schedule_download("u1", BurstPlatform, Len(tasks) + 1)
    \/ \E n \in 1..MaxWorkers : start_scheduler(n)
    \/ \E w \in Workers :
          \/ worker_get(w)
          \/ worker_check(w)
          \/ worker_execute_start(w)
          \/ worker_execute_finish(w, "returns")
    \/ Tick

SpecBurst == Init /\ [][NextBurst]_vars

(***************************************************************************)
(* A burst handed to execute_downloads: as many tasks of one platform as   *)
(* its per-minute limit allows, then a few more tasks of any platform,     *)
(* each task with a priority of its own; every download succeeds, so that  *)
(* every one of them is counted by _update_rate_limiter.                   *)
(***************************************************************************)
NextThrottle ==
    \/ /\ Len(tasks) < _get_platform_rate_limit(BurstPlatform)
       /\ schedule_download("u1", BurstPlatform, Len(tasks) + 1)
    \/ /\ Len(tasks) >= _get_platform_rate_limit(BurstPlatform)
       /\ Len(tasks) < _get_platform_rate_limit(BurstPlatform) + MaxExtra
       /\ \E platform \in Platforms :
             schedule_download("u1", platform, Len(tasks) + 1)
    \/ execute_downloads
    \/ execute_downloads_pass("success")

SpecThrottle == Init /\ [][NextThrottle]_vars

(***************************************************************************)
(* The worker threads are started first and the tasks, all of one          *)
(* platform, are scheduled while they run.  Every callback returns.        *)
(***************************************************************************)
NextLive ==
    \/ \E n \in 1..MaxWorkers : start_scheduler(n)
    \/ /\ Len(tasks) < MaxLive
       /\ \E priority \in Priorities :
             schedule_download_put("u1", LivePlatform, priority)
    \/ schedule_download_limiter
    \/ \E w \in Workers :
          \/ worker_get(w)
          \/ worker_check(w)
          \/ worker_requeue(w)
          \/ worker_execute_start(w)
          \/ worker_execute_finish(w, "returns")
          \/ worker_error_wake(w)
    \/ Tick

SpecLive == Init /\ [][NextLive]_vars

(***************************************************************************)
(* SpecRace: the worker path with the admission of _check_rate_limit and  *)
(* the += on total_downloads followed step by step.  The tasks are scheduled while the workers run; they have      *)
(* different urls (so different ids), and every callback returns.          *)
(***************************************************************************)
NextRace ==
    \/ \E n \in 1..MaxWorkers : start_scheduler(n)
    \/ /\ Len(tasks) < MaxRaceTasks
       /\ \E priority \in Priorities :
             schedule_download_put(Urls[Len(tasks) + 1], LivePlatform,
                                   priority)
    \/ schedule_download_limiter
    \/ \E w \in Workers :
          \/ worker_get(w)
          \/ worker_check(w)
          \/ worker_check_read(w)
          \/ worker_check_write(w)
          \/ worker_requeue(w)
          \/ worker_execute_load(w)
          \/ worker_execute_store(w)
          \/ worker_execute_finish(w, "returns")
          \/ worker_error_wake(w)
    \/ Tick

SpecRace == Init /\ [][NextRace]_vars

(***************************************************************************)
(* BulkDownloader: the statistics of the bulk operations.                  *)
(***************************************************************************)

(* The keys of bulk_download_multiple_urls' downloader_map.                *)
BulkSupported == {"youtube", "tiktok", "instagram", "reddit", "twitter",
                  "redgifs", "xvideos", "pornhub", "coomer", "kemono"}

(* bulk_download_subreddit: one target.  RedditDownloader.download returns *)
(* a result that succeeds or fails, or raises; the handler of the raise    *)
(* counts a failure and nothing else.                                      *)
bulk_download_subreddit(outcome) ==
    /\ bulk.pc = "idle"
    /\ bulk_submitted < MaxBulkItems
    /\ bulk_submitted' = bulk_submitted + 1
    /\ bulk_statistics' =
         CASE outcome = "success" ->
                [bulk_statistics EXCEPT !.total_requested = @ + 1,
                                        !.total_completed = @ + 1]
           [] outcome = "failure" ->
                [bulk_statistics EXCEPT !.total_requested = @ + 1,
                                        !.total_failed = @ + 1]
           [] OTHER ->
                [bulk_statistics EXCEPT !.total_failed = @ + 1]
    /\ UNCHANGED <<bulk, bulk_unsupported, bulk_progress, batch>>
    /\ UNCHANGED scheduler_vars
    /\ UNCHANGED other_vars
    /\ UNCHANGED live_vars
    /\ UNCHANGED caller_vars

(* bulk_download_multiple_urls up to its as_completed loop: a platform     *)
(* that is not in downloader_map makes it return an error result at once;  *)
(* otherwise every url is submitted to the executor.                       *)
bulk_download_multiple_urls(total_urls, platform) ==
    /\ bulk.pc = "idle"
    /\ \/ batch.pc \in {"idle", "done"}
       \/ batch.pc = "call" /\ total_urls = 1 /\ platform = batch.platform
    /\ batch' = IF batch.pc = "call" /\ platform \notin BulkSupported
                THEN [batch EXCEPT !.pc = "result", !.result = FALSE,
                                   !.reported = FALSE]
                ELSE IF batch.pc = "call"
                THEN [batch EXCEPT !.pc = "called"]
                ELSE batch
    /\ bulk_submitted + total_urls <= MaxBulkItems
    /\ bulk_submitted' = bulk_submitted + total_urls
    /\ bulk' = IF platform \notin BulkSupported
               THEN bulk
               ELSE [pc |-> "as_completed", total_urls |-> total_urls,
                     pending |-> total_urls, completed |-> 0, failed |-> 0,
                     results |-> 0, invoked |-> 0]
    /\ bulk_unsupported' = IF platform \notin BulkSupported
                           THEN bulk_unsupported + total_urls
                           ELSE bulk_unsupported
    /\ bulk_progress' = <<>>
    /\ UNCHANGED bulk_statistics
    /\ UNCHANGED scheduler_vars
    /\ UNCHANGED other_vars
    /\ UNCHANGED live_vars
    /\ UNCHANGED caller_vars

(* int(((completed + failed) / total_urls) * 100): the float quotient,     *)
(* truncated (for the list lengths of the model it is the integer          *)
(* quotient of 100 * (completed + failed) by total_urls).                  *)
progress(completed, failed, total_urls) ==
    (100 * (completed + failed)) \div total_urls

(* One pass of the as_completed loop.  download_single_url has called the  *)
(* downloader once (invoked, a history field) and turns a raise of it into *)
(* a failure result.  The result is appended to results and counted, then  *)
(* progress_callback is called; when it raises, the loop's handler counts  *)
(* one more failure and appends one more result.                           *)
bulk_future_completed(outcome, callback) ==
    /\ bulk.pc = "as_completed"
    /\ bulk.pending > 0
    /\ batch.pc = "called" => callback = "returns"
    /\ LET counted == IF outcome = "success"
                      THEN [bulk EXCEPT !.completed = @ + 1,
                                        !.results = @ + 1,
                                        !.invoked = @ + 1]
                      ELSE [bulk EXCEPT !.failed = @ + 1,
                                        !.results = @ + 1,
                                        !.invoked = @ + 1]
           handled == IF callback = "raises"
                      THEN [counted EXCEPT !.failed = @ + 1,
                                           !.results = @ + 1]
                      ELSE counted
       IN  /\ bulk' = [handled EXCEPT !.pending = @ - 1]
           /\ bulk_progress' = Append(bulk_progress,
                progress(counted.completed, counted.failed,
                         bulk.total_urls))
    /\ UNCHANGED <<bulk_statistics, bulk_submitted, bulk_unsupported, batch>>
    /\ UNCHANGED scheduler_vars
    /\ UNCHANGED other_vars
    /\ UNCHANGED live_vars
    /\ UNCHANGED caller_vars

(* bulk_download_multiple_urls after the loop: the counters are added to   *)
(* the statistics and the summary is returned.                             *)
bulk_download_multiple_urls_return ==
    /\ bulk.pc = "as_completed"
    /\ bulk.pending = 0
    /\ bulk_statistics' =
         [bulk_statistics EXCEPT !.total_requested = @ + bulk.total_urls,
                                 !.total_completed = @ + bulk.completed,
                                 !.total_failed = @ + bulk.failed]
    /\ bulk' = BulkIdle
    /\ batch' = IF batch.pc = "called"
                THEN [batch EXCEPT !.pc = "result", !.result = TRUE,
                                   !.reported = bulk.completed = 1]
                ELSE batch
    /\ UNCHANGED <<bulk_submitted, bulk_unsupported, bulk_progress>>
    /\ UNCHANGED scheduler_vars
    /\ UNCHANGED other_vars
    /\ UNCHANGED live_vars
    /\ UNCHANGED caller_vars

BulkPlatforms == {"reddit", "vimeo"}

NextBulk ==
    \/ \E outcome \in Outcomes : bulk_download_subreddit(outcome)
    \/ \E total_urls \in 0..MaxBulkUrls, platform \in BulkPlatforms :
          bulk_download_multiple_urls(total_urls, platform)
    \/ \E outcome \in Outcomes, callback \in CallbackOutcomes :
          bulk_future_completed(outcome, callback)
    \/ bulk_download_multiple_urls_return

SpecBulk == Init /\ [][NextBulk]_vars

(***************************************************************************)
(* BulkDownloader.batch_process_mixed_urls.                                *)
(***************************************************************************)

(* What _detect_platform_from_url answers for the urls of the model: a     *)
(* platform with a route of its own, one of downloader_map, and 'generic'  *)
(* (which is not in downloader_map).                                       *)
BatchPlatforms == {"erome", "reddit", "generic"}
ProfileRoutes == {"erome", "kwai", "pornhub"}

batch_process_mixed_urls(total_urls) ==
    /\ batch.pc = "idle"
    /\ bulk.pc = "idle"
    /\ batch' = [BatchIdle EXCEPT !.pc = "loop", !.total_urls = total_urls]
    /\ UNCHANGED <<bulk_statistics, bulk, bulk_submitted, bulk_unsupported,
                   bulk_progress>>
    /\ UNCHANGED scheduler_vars
    /\ UNCHANGED other_vars
    /\ UNCHANGED live_vars
    /\ UNCHANGED caller_vars

(* The head of the loop: the platform of the next url is detected and the  *)
(* route is chosen.                                                        *)
batch_next_url(platform) ==
    /\ batch.pc = "loop"
    /\ batch.i < batch.total_urls
    /\ batch' = [batch EXCEPT
                   !.pc = IF platform \in ProfileRoutes
                          THEN "call_profile" ELSE "call",
                   !.platform = platform]
    /\ UNCHANGED <<bulk_statistics, bulk, bulk_submitted, bulk_unsupported,
                   bulk_progress>>
    /\ UNCHANGED scheduler_vars
    /\ UNCHANGED other_vars
    /\ UNCHANGED live_vars
    /\ UNCHANGED caller_vars

(* bulk_download_erome_profile (kwai and pornhub alike): the Downloader is *)
(* called once; its result is counted in the statistics and returned as    *)
(* it is; when it raises, the handler counts a failure and returns a       *)
(* failure result.                                                         *)
bulk_download_erome_profile(outcome) ==
    /\ batch.pc = "call_profile"
    /\ bulk_submitted < MaxBulkItems
    /\ bulk_submitted' = bulk_submitted + 1
    /\ bulk_statistics' =
         CASE outcome = "success" ->
                [bulk_statistics EXCEPT !.total_requested = @ + 1,
                                        !.total_completed = @ + 1]
           [] outcome = "failure" ->
                [bulk_statistics EXCEPT !.total_requested = @ + 1,
                                        !.total_failed = @ + 1]
           [] OTHER ->
                [bulk_statistics EXCEPT !.total_failed = @ + 1]
    /\ batch' = [batch EXCEPT !.pc = "result",
                              !.result = outcome = "success",
                              !.reported = outcome = "success"]
    /\ UNCHANGED <<bulk, bulk_unsupported, bulk_progress>>
    /\ UNCHANGED scheduler_vars
    /\ UNCHANGED other_vars
    /\ UNCHANGED live_vars
    /\ UNCHANGED caller_vars

(* int(((i + 1) / total_urls) * 100).                                      *)
batch_progress(i, total_urls) == (100 * (i + 1)) \div total_urls

(* The rest of the loop body: the url is counted by the 'success' of the   *)
(* result, then progress_callback is called; when it raises, the handler   *)
(* of the loop body counts one more failure.  (The time.sleep that         *)
(* follows changes nothing here.)                                          *)
batch_count_result(callback) ==
    /\ batch.pc = "result"
    /\ LET counted == IF batch.result
                      THEN [batch EXCEPT !.successful = @ + 1]
                      ELSE [batch EXCEPT !.failed = @ + 1]
           handled == IF callback = "raises"
                      THEN [counted EXCEPT !.failed = @ + 1]
                      ELSE counted
       IN  batch' = [handled EXCEPT
                       !.pc = "loop",
                       !.i = @ + 1,
                       !.processed = @ + 1,
                       !.miscounted =
                          IF batch.result /\ ~batch.reported
                          THEN @ + 1 ELSE @,
                       !.progress =
                          Append(@, batch_progress(batch.i,
                                                   batch.total_urls))]
    /\ UNCHANGED <<bulk_statistics, bulk, bulk_submitted, bulk_unsupported,
                   bulk_progress>>
    /\ UNCHANGED scheduler_vars
    /\ UNCHANGED other_vars
    /\ UNCHANGED live_vars
    /\ UNCHANGED caller_vars

(* After the loop the summary is returned.                                 *)
batch_process_mixed_urls_return ==
    /\ batch.pc = "loop"
    /\ batch.i = batch.total_urls
    /\ batch' = [batch EXCEPT !.pc = "done"]
    /\ UNCHANGED <<bulk_statistics, bulk, bulk_submitted, bulk_unsupported,
                   bulk_progress>>
    /\ UNCHANGED scheduler_vars
    /\ UNCHANGED other_vars
    /\ UNCHANGED live_vars
    /\ UNCHANGED caller_vars

NextBatch ==
    \/ \E total_urls \in 0..MaxBatchUrls :
          batch_process_mixed_urls(total_urls)
    \/ \E platform \in BatchPlatforms : batch_next_url(platform)
    \/ \E outcome \in Outcomes : bulk_download_erome_profile(outcome)
    \/ /\ batch.pc = "call"
       /\ bulk_download_multiple_urls(1, batch.platform)
    \/ \E outcome \in Outcomes : bulk_future_completed(outcome, "returns")
    \/ bulk_download_multiple_urls_return
    \/ \E callback \in CallbackOutcomes : batch_count_result(callback)
    \/ batch_process_mixed_urls_return

SpecBatch == Init /\ [][NextBatch]_vars

(***************************************************************************)
(* The statistics calls and what their caller does with the result.        *)
(***************************************************************************)

(* The same dict handed out again: what a return of self.statistics        *)
(* itself would give.                                                      *)
same_dict(dict, items, fresh) == [dict |-> dict, items |-> items]

(* dict.copy(): a new dict with the same items.  The values of both        *)
(* statistics dicts are numbers, so the copy shares nothing with the       *)
(* original.                                                               *)
copy(dict, items, fresh) == [dict |-> fresh, items |-> items]

(* The items of a dict a caller holds: those of a self.statistics when it  *)
(* is that very dict, its own otherwise.                                   *)
ItemsOf(value) ==
    IF value.dict = dict_ids.bulk_statistics THEN bulk_statistics
    ELSE IF value.dict = dict_ids.statistics THEN statistics
    ELSE value.items

(* BulkDownloader.get_statistics.                                          *)
get_statistics ==
    /\ dict_ids.created < 2 + MaxStatsCalls
    /\ dict_ids' = [dict_ids EXCEPT !.created = @ + 1]
    /\ returned' = [value |-> copy(dict_ids.bulk_statistics,
                                   bulk_statistics, dict_ids.created + 1),
                    of |-> "get_statistics", changes |-> 0]
    /\ UNCHANGED bulk_vars
    /\ UNCHANGED other_vars
    /\ UNCHANGED scheduler_vars
    /\ UNCHANGED other_vars
    /\ UNCHANGED start_report
    /\ UNCHANGED live_vars

(* BulkDownloader.reset_statistics: self.statistics is bound to a new dict *)
(* of zeros.                                                               *)
reset_statistics ==
    /\ dict_ids.created < 2 + MaxStatsCalls
    /\ dict_ids' = [dict_ids EXCEPT !.created = @ + 1,
                                    !.bulk_statistics = dict_ids.created + 1]
    /\ bulk_statistics' = [total_requested |-> 0, total_completed |-> 0,
                           total_failed |-> 0]
    /\ returned' = IF returned.value.dict = dict_ids.bulk_statistics
                   THEN [returned EXCEPT !.value.items = bulk_statistics]
                   ELSE returned
    /\ UNCHANGED <<bulk, bulk_submitted, bulk_unsupported, bulk_progress,
                   batch>>
    /\ UNCHANGED scheduler_vars
    /\ UNCHANGED other_vars
    /\ UNCHANGED start_report
    /\ UNCHANGED live_vars

(* DownloadScheduler.get_queue_status, its 'statistics' part.  The         *)
(* 'rate_limiters' part reads data['requests_this_minute'] of every        *)
(* record: a record made by schedule_download has no such key, the         *)
(* KeyError leaves the call and nothing is returned.                       *)
get_queue_status ==
    /\ dict_ids.created < 2 + MaxStatsCalls
    /\ dict_ids' = [dict_ids EXCEPT !.created = @ + 1]
    /\ returned' =
         IF \E platform \in AllPlatforms :
               rate_limiters[platform].schema = "sched"
         THEN [value |-> NoDict, of |-> "KeyError", changes |-> 0]
         ELSE [value |-> copy(dict_ids.statistics, statistics,
                              dict_ids.created + 1),
               of |-> "get_queue_status", changes |-> 0]
    /\ UNCHANGED bulk_vars
    /\ UNCHANGED other_vars
    /\ UNCHANGED scheduler_vars
    /\ UNCHANGED other_vars
    /\ UNCHANGED start_report
    /\ UNCHANGED live_vars

(* The caller stores a value under a key of the dict it was given.         *)
CallerValues == {99}

caller_changes_returned(key, value) ==
    /\ returned.value.dict # 0
    /\ returned.changes < MaxCallerChanges
    /\ key \in DOMAIN ItemsOf(returned.value)
    /\ bulk_statistics' =
         IF returned.value.dict = dict_ids.bulk_statistics
         THEN [bulk_statistics EXCEPT ![key] = value]
         ELSE bulk_statistics
    /\ statistics' =
         IF returned.value.dict = dict_ids.statistics
         THEN [statistics EXCEPT ![key] = value]
         ELSE statistics
    /\ returned' =
         [returned EXCEPT !.changes = @ + 1,
                          !.value.items =
                             IF returned.value.dict
                                  \in {dict_ids.bulk_statistics,
                                       dict_ids.statistics}
                             THEN @
                             ELSE [@ EXCEPT ![key] = value]]
    /\ UNCHANGED <<dict_ids, start_report>>
    /\ UNCHANGED <<bulk, bulk_submitted, bulk_unsupported, bulk_progress,
                   batch>>
    /\ UNCHANGED <<now, tasks, heap, unfinished, rate_limiters,
                   active_downloads, mode, seq, seq_result, wpc, wentry,
                   wake, log, hist, cancels>>
    /\ UNCHANGED other_vars
    /\ UNCHANGED live_vars

(* The BulkDownloader and the DownloadScheduler are two objects that share *)
(* nothing: a behaviour of SpecStats uses one of them, with its            *)
(* statistics call and a caller that writes to what it was given.          *)
NextStats ==
    \/ /\ mode = "none"
       /\ tasks = <<>>
       /\ returned.of \in {"none", "get_statistics"}
       /\ \/ \E outcome \in Outcomes : bulk_download_subreddit(outcome)
          \/ \E total_urls \in 0..MaxBulkUrls, platform \in BulkPlatforms :
                bulk_download_multiple_urls(total_urls, platform)
          \/ \E outcome \in Outcomes, callback \in CallbackOutcomes :
                bulk_future_completed(outcome, callback)
          \/ bulk_download_multiple_urls_return
          \/ get_statistics
          \/ reset_statistics
    \/ /\ bulk_submitted = 0
       /\ dict_ids.bulk_statistics = 1
       /\ returned.of \in {"none", "get_queue_status", "KeyError"}
       /\ \/ start_scheduler(1)
          \/ /\ Len(tasks) < MaxStatsTasks
             /\ schedule_download_put("u1", LivePlatform, 1)
          \/ schedule_download_limiter
          \/ worker_get(1)
          \/ worker_check(1)
          \/ worker_requeue(1)
          \/ worker_execute_start(1)
          \/ \E callback \in CallbackOutcomes :
                worker_execute_finish(1, callback)
          \/ worker_error_wake(1)
          \/ Tick
          \/ get_queue_status
    \/ \E key \in {"total_requested", "total_failed", "total_downloads"},
          value \in CallerValues :
          caller_changes_returned(key, value)

SpecStats == Init /\ [][NextStats]_vars

(***************************************************************************)
(* EnhancedDownloader.smart_retry_mechanism.                               *)
(***************************************************************************)

(* for attempt in range(max_retries): one more past the end.               *)
in_range_inclusive(attempt, max_retries) == attempt <= max_retries

(* for attempt in range(max_retries).                                      *)
in_range(attempt, max_retries) == attempt < max_retries

smart_retry_mechanism(max_retries) ==
    /\ retry.pc = "idle"
    /\ retry' = [RetryIdle EXCEPT !.pc = "loop", !.max_retries = max_retries]
    /\ UNCHANGED core_vars
    /\ UNCHANGED gui_vars

(* One pass of the loop.  download_func is called; a success result is     *)
(* returned at once; after another result the thread sleeps 2 ** attempt   *)
(* seconds; an exception (that of result.get on something that is not a    *)
(* dict included) is caught: on the last attempt a failure result is       *)
(* returned, otherwise the thread sleeps 2 ** attempt seconds.             *)
smart_retry_attempt(outcome) ==
    /\ retry.pc = "loop"
    /\ in_range(retry.attempt, retry.max_retries)
    /\ retry' =
         LET called == [retry EXCEPT !.calls = Append(@, outcome)]
             again == [called EXCEPT !.attempt = @ + 1,
                                     !.slept = @ + 2 ^ retry.attempt]
         IN  CASE outcome = "success" ->
                    [called EXCEPT !.pc = "returned", !.returned = "success"]
               [] outcome = "failure" -> again
               [] OTHER ->
                    IF retry.attempt = retry.max_retries - 1
                    THEN [called EXCEPT !.pc = "returned",
                                        !.returned = "failure"]
                    ELSE again
    /\ UNCHANGED core_vars
    /\ UNCHANGED gui_vars

(* After the loop: the 'Max retries exceeded' failure result.              *)
smart_retry_exhausted ==
    /\ retry.pc = "loop"
    /\ ~in_range(retry.attempt, retry.max_retries)
    /\ retry' = [retry EXCEPT !.pc = "returned", !.returned = "failure"]
    /\ UNCHANGED core_vars
    /\ UNCHANGED gui_vars

NextRetry ==
    \/ \E max_retries \in 0..MaxRetryArg : smart_retry_mechanism(max_retries)
    \/ \E outcome \in Outcomes : smart_retry_attempt(outcome)
    \/ smart_retry_exhausted

(* The thread that runs the mechanism keeps running, and every call of     *)
(* download_func comes back.                                               *)
SpecRetry ==
    /\ Init
    /\ [][NextRetry]_vars
    /\ WF_vars(\E outcome \in Outcomes : smart_retry_attempt(outcome))
    /\ WF_vars(smart_retry_exhausted)

(***************************************************************************)
(* gui.DownloadQueue: the Tk main loop runs add_download, the button       *)
(* commands, retry_selected and the callbacks given to after(0, ...);      *)
(* each process_downloads runs in a thread of its own.  A press of a       *)
(* disabled button runs nothing.                                           *)
(***************************************************************************)

GuiOutcomes == Outcomes \cup {"no downloader"}

Running == {k \in DOMAIN threads : threads[k].pc # "ended"}

add_download ==
    /\ Len(queue_items) < MaxGuiItems
    /\ queue_items' = Append(queue_items,
                             [status |-> "Queued", queued |-> 1,
                              invoked |-> 0])
    /\ UNCHANGED <<is_downloading, start_button, pause_button, threads,
                   tk_events, presses>>
    /\ UNCHANGED core_vars
    /\ UNCHANGED retry_vars

(* The Start Downloads button is pressed: start_downloads.                 *)
start_downloads ==
    /\ start_button = "normal"
    /\ Len(presses) < MaxPresses
    /\ presses' = Append(presses, "start")
    /\ IF is_downloading
          \/ ~\E i \in DOMAIN queue_items : queue_items[i].status = "Queued"
       THEN UNCHANGED <<is_downloading, start_button, pause_button, threads>>
       ELSE /\ is_downloading' = TRUE
            /\ start_button' = "disabled"
            /\ pause_button' = "normal"
            /\ threads' = Append(threads, [pc |-> "head", item |-> 1])
    /\ UNCHANGED <<queue_items, tk_events>>
    /\ UNCHANGED core_vars
    /\ UNCHANGED retry_vars

(* pause_downloads, if it also gave the Start button back.                 *)
pause_downloads_enabling_start ==
    /\ pause_button = "normal"
    /\ Len(presses) < MaxPresses
    /\ presses' = Append(presses, "pause")
    /\ is_downloading' = FALSE
    /\ pause_button' = "disabled"
    /\ start_button' = "normal"
    /\ UNCHANGED <<queue_items, threads, tk_events>>
    /\ UNCHANGED core_vars
    /\ UNCHANGED retry_vars

(* The Pause button is pressed: pause_downloads.  The Start button stays   *)
(* as it is.                                                               *)
pause_downloads ==
    /\ pause_button = "normal"
    /\ Len(presses) < MaxPresses
    /\ presses' = Append(presses, "pause")
    /\ is_downloading' = FALSE
    /\ pause_button' = "disabled"
    /\ UNCHANGED <<queue_items, start_button, threads, tk_events>>
    /\ UNCHANGED core_vars
    /\ UNCHANGED retry_vars

(* update_item_status: the update is handed to after(0, ...).              *)
update_item_status(events, item_id, status) ==
    Append(events, [call |-> "update", item |-> item_id, status |-> status])

(* process_downloads at the head of its loop, about to look at the item    *)
(* at position threads[k].item of queue_items.  The list is over or        *)
(* is_downloading is False: on to the finally clause; the item is not      *)
(* Queued: the next item; otherwise the item is marked Downloading and     *)
(* its download starts.                                                    *)
process_downloads_head(k) ==
    /\ k \in DOMAIN threads
    /\ threads[k].pc = "head"
    /\ LET i == threads[k].item IN
       IF i > Len(queue_items) \/ ~is_downloading
       THEN /\ threads' = [threads EXCEPT ![k].pc = "finally"]
            /\ tk_events' = tk_events
       ELSE IF queue_items[i].status # "Queued"
       THEN /\ threads' = [threads EXCEPT ![k].item = i + 1]
            /\ tk_events' = tk_events
       ELSE /\ threads' = [threads EXCEPT ![k].pc = "download"]
            /\ tk_events' = update_item_status(tk_events, i, "Downloading")
    /\ UNCHANGED <<is_downloading, queue_items, start_button, pause_button,
                   presses>>
    /\ UNCHANGED core_vars
    /\ UNCHANGED retry_vars

(* The download of the item in hand: without a downloader for its platform *)
(* the item is marked Failed and nothing is invoked; otherwise             *)
(* downloader.download is invoked (invoked, a history field) and the item  *)
(* is marked Completed or Failed by its result or exception.               *)
process_downloads_download(k, outcome) ==
    /\ k \in DOMAIN threads
    /\ threads[k].pc = "download"
    /\ LET i == threads[k].item IN
       /\ queue_items' =
            IF outcome = "no downloader" THEN queue_items
            ELSE [queue_items EXCEPT ![i].invoked = @ + 1]
       /\ tk_events' = update_item_status(tk_events, i,
                          IF outcome = "success" THEN "Completed"
                          ELSE "Failed")
       /\ threads' = [threads EXCEPT ![k].pc = "head", ![k].item = i + 1]
    /\ UNCHANGED <<is_downloading, start_button, pause_button, presses>>
    /\ UNCHANGED core_vars
    /\ UNCHANGED retry_vars

(* The finally clause of process_downloads.                                *)
process_downloads_finally(k) ==
    /\ k \in DOMAIN threads
    /\ threads[k].pc = "finally"
    /\ is_downloading' = FALSE
    /\ tk_events' = Append(tk_events, [call |-> "download_finished"])
    /\ threads' = [threads EXCEPT ![k].pc = "ended"]
    /\ UNCHANGED <<queue_items, start_button, pause_button, presses>>
    /\ UNCHANGED core_vars
    /\ UNCHANGED retry_vars

(* The Tk main loop runs the oldest after(0, ...) callback: the update of  *)
(* update_item_status, or download_finished.                               *)
tk_run_event ==
    /\ tk_events # <<>>
    /\ tk_events' = Tail(tk_events)
    /\ LET ev == Head(tk_events) IN
       IF ev.call = "download_finished"
       THEN /\ start_button' = "normal"
            /\ pause_button' = "disabled"
            /\ queue_items' = queue_items
       ELSE /\ queue_items' = [queue_items EXCEPT
                                 ![ev.item].status = ev.status]
            /\ UNCHANGED <<start_button, pause_button>>
    /\ UNCHANGED <<is_downloading, threads, presses>>
    /\ UNCHANGED core_vars
    /\ UNCHANGED retry_vars

(* retry_selected on a Failed item: it is Queued again.                    *)
retry_selected(item_id) ==
    /\ item_id \in DOMAIN queue_items
    /\ queue_items[item_id].status = "Failed"
    /\ queue_items[item_id].queued < MaxQueued
    /\ queue_items' = [queue_items EXCEPT ![item_id].status = "Queued",
                                          ![item_id].queued = @ + 1]
    /\ tk_events' = update_item_status(tk_events, item_id, "Queued")
    /\ UNCHANGED <<is_downloading, start_button, pause_button, threads,
                   presses>>
    /\ UNCHANGED core_vars
    /\ UNCHANGED retry_vars

NextGui ==
    \/ add_download
    \/ start_downloads
    \/ pause_downloads
    \/ \E k \in 1..MaxPresses :
          \/ process_downloads_head(k)
          \/ \E outcome \in GuiOutcomes :
                process_downloads_download(k, outcome)
          \/ process_downloads_finally(k)
    \/ tk_run_event
    \/ \E item_id \in 1..MaxGuiItems : retry_selected(item_id)

SpecGui == Init /\ [][NextGui]_vars

(***************************************************************************)
(* What the history says.                                                  *)
(***************************************************************************)
Tasks == DOMAIN tasks

Dispatched(t) == \E i \in DOMAIN log : log[i].task = t

(* The place of task t's dispatch in the order of the dispatches.          *)
DispatchIndex(t) == CHOOSE i \in DOMAIN log : log[i].task = t

(* a was taken from the queue for dispatch, and before b was: the order    *)
(* of the gets, so that two workers racing between get and dispatch do not *)
(* count as a reordering.                                                  *)
DispatchedBefore(a, b) ==
    hist[a].pulled > 0 /\ hist[a].pulled < hist[b].pulled

(* execute_downloads has returned its normal result and left nothing in    *)
(* the queue.                                                              *)
SequentialRunDrained ==
    /\ mode = "seq"
    /\ seq.pc = "idle"
    /\ seq_result.success = TRUE
    /\ heap = <<>>

(***************************************************************************)
(* C1: whatever the number of pending tasks of a source and of workers,    *)
(* at most the source's per-window maximum of its tasks are dispatched     *)
(* within any rolling window of 60 seconds, on both dispatch paths.        *)
(***************************************************************************)
C1_RollingWindowLimit ==
    \A j \in DOMAIN log :
        LET platform == tasks[log[j].task].platform
        IN  Cardinality({i \in 1..j :
                           /\ tasks[log[i].task].platform = platform
                           /\ log[j].time - log[i].time < WindowSeconds})
              <= _get_platform_rate_limit(platform)

(***************************************************************************)
(* C2: a task of source S is dispatched only if, at that moment, fewer     *)
(* than S's per-window maximum of dispatches of S lie in S's current       *)
(* accounting window and S's last dispatch is at least S's minimum         *)
(* spacing ago, on both dispatch paths.                                    *)
(***************************************************************************)
C2_DispatchWithinLimits ==
    \A j \in DOMAIN log :
        LET platform == tasks[log[j].task].platform
            earlier == {i \in 1..(j - 1) :
                          tasks[log[i].task].platform = platform}
        IN  /\ Cardinality({i \in earlier :
                              log[i].time >= log[j].window_start})
                 < _get_platform_rate_limit(platform)
            /\ \A i \in earlier :
                  log[j].time - log[i].time >= min_delay(platform)

(***************************************************************************)
(* C3: of two tasks of the same source that are both pending when          *)
(* dispatching starts, with no throttling of that source, the one with     *)
(* the smaller priority number is dispatched before the other, whatever    *)
(* the order of submission.                                                *)
(***************************************************************************)
C3_PriorityOrder ==
    \A a, b \in Tasks :
        ( /\ tasks[a].platform = tasks[b].platform
          /\ hist[a].priority < hist[b].priority
          /\ \A t \in Tasks : tasks[t].platform = tasks[a].platform
                                 => ~hist[t].throttled
          /\ Dispatched(b) )
        => DispatchedBefore(a, b)

(***************************************************************************)
(* C4: two tasks of equal priority submitted in the order A then B are     *)
(* both accepted, and A is dispatched before B.                            *)
(***************************************************************************)
C4_EqualPriorityFifo ==
    \A a, b \in Tasks :
        (a < b /\ hist[a].priority = hist[b].priority)
        => /\ hist[a].returned_id
           /\ hist[b].returned_id
           /\ (Dispatched(b) => DispatchedBefore(a, b))

(***************************************************************************)
(* C5: a task whose Downloader fails on every invocation ends with status  *)
(* Failed after exactly MaxRetries attempts.                               *)
(***************************************************************************)
C5_FailedAfterMaxRetries ==
    \A t \in Tasks :
        (SequentialRunDrained /\ hist[t].attempts > 0
           /\ hist[t].outcome = "failure")
        => (hist[t].attempts = MaxRetries /\ tasks[t].status = "failed")

(***************************************************************************)
(* C6: with maxRetries = 3, a single submitted task whose Downloader       *)
(* always fails has its Downloader invoked exactly 4 times (the first      *)
(* attempt and 3 retries) and ends with status Failed.                     *)
(***************************************************************************)
C6_InitialPlusThreeRetries ==
    (Len(tasks) = 1 /\ SequentialRunDrained /\ hist[1].attempts > 0
       /\ hist[1].outcome = "failure")
    => (hist[1].attempts = 1 + MaxRetries /\ tasks[1].status = "failed")

(***************************************************************************)
(* C7: starting from zeroed statistics, once the bulk operations over N    *)
(* submitted items have returned, total_completed + total_failed = N and   *)
(* total_requested = N, whatever the mix of successes, failures, raises    *)
(* and unsupported platforms.                                              *)
(***************************************************************************)
C7_StatisticsAccountForEveryItem ==
    bulk.pc = "idle"
    => /\ bulk_statistics.total_completed + bulk_statistics.total_failed
            = bulk_submitted
       /\ bulk_statistics.total_requested = bulk_submitted

(***************************************************************************)
(* C8: once cancel_download was called on a task that was still queued,    *)
(* that task's Downloader is never invoked.                                *)
(***************************************************************************)
C8_CancelledNeverInvoked ==
    \A t \in Tasks : hist[t].cancelled_queued => hist[t].attempts = 0

(***************************************************************************)
(* C9: cancel_download called for a task that is running or finished, or   *)
(* for an unknown id, returns False and leaves active_downloads as it is.  *)
(***************************************************************************)
C9_CancelRefusedUnlessQueued ==
    \A i \in DOMAIN cancels :
        cancels[i].phases \subseteq {"running", "finished"}
        => (cancels[i].returned = FALSE /\ ~cancels[i].removed)

(***************************************************************************)
(* C10: a task whose download is in progress has status Running, and a     *)
(* task whose download has returned has status Completed or Failed, never  *)
(* still Scheduled.                                                        *)
(***************************************************************************)
C10_StatusFollowsLifecycle ==
    \A t \in Tasks :
        /\ TaskPhase(t) = "running" => tasks[t].status = "running"
        /\ hist[t].outcome = "success" => tasks[t].status = "completed"
        /\ hist[t].outcome = "failure" => tasks[t].status = "failed"

(***************************************************************************)
(* C11: when the task taken for dispatch is of a throttled source while a  *)
(* task of another source, admitted at that moment, is pending, the        *)
(* admitted task is dispatched without waiting for the throttled source:   *)
(* it is dispatched before the throttled task is.                          *)
(***************************************************************************)
C11_AdmittedTaskOvertakesThrottled ==
    \A t \in Tasks : \A u \in hist[t].waiting :
        Dispatched(t)
        => (Dispatched(u) /\ DispatchIndex(u) < DispatchIndex(t))

(***************************************************************************)
(* C12: a task that was put back because its source was throttled keeps    *)
(* its place: no task of the same source that was behind it when it was    *)
(* put back (a larger priority number, or the same priority and a later    *)
(* submission) is dispatched before it.                                    *)
(***************************************************************************)
C12_RequeueKeepsPlace ==
    \A t \in Tasks : \A u \in hist[t].behind :
        Dispatched(u)
        => (Dispatched(t) /\ DispatchIndex(t) < DispatchIndex(u))

(***************************************************************************)
(* C13: at the moment a run finishes the queue is empty and every          *)
(* submitted task has been dispatched and finalized: when                  *)
(* execute_downloads has returned, and when every worker thread waits on   *)
(* the empty queue.                                                        *)
(***************************************************************************)
C13_RunEndsDrained ==
    /\ (mode = "seq" /\ seq.pc = "idle")
       => (heap = <<>> /\ \A t \in Tasks : hist[t].outcome # "no")
    /\ ( /\ mode = "workers"
         /\ heap = <<>>
         /\ \E w \in Workers : wpc[w] # "off"
         /\ \A w \in Workers : wpc[w] \in {"off", "get"} )
       => \A t \in Tasks : hist[t].outcome # "no"

C15_UnsupportedCountedAsFailed ==
    bulk.pc = "idle"
    => /\ bulk_statistics.total_failed >= bulk_unsupported
       /\ bulk_statistics.total_requested >= bulk_unsupported

(***************************************************************************)
(* C16: every admission adds exactly one to the source's request count and *)
(* sets its last-dispatch time, whatever the download's result, and a      *)
(* denial changes neither: so a source's limiter record counts exactly     *)
(* the dispatches of the source since the start of its window, and its     *)
(* last-dispatch time is the time of the latest of them.                   *)
(***************************************************************************)
C16_LimiterCountsEveryAdmission ==
    \A platform \in AllPlatforms :
        rate_limiters[platform].schema # "none"
        => LET limiter == rate_limiters[platform]
               D == {i \in DOMAIN log :
                       /\ tasks[log[i].task].platform = platform
                       /\ log[i].time >= limiter.window_start}
           IN  /\ limiter.count = Cardinality(D)
               /\ \A i \in D : log[i].time <= limiter.last_request

(***************************************************************************)
(* C17: the number of running tasks, counted as the downloads in progress  *)
(* and as the entries of active_downloads, is at most the number of        *)
(* worker threads that was asked for.                                      *)
(***************************************************************************)
C17_RunningWithinWorkerCount ==
    LET requested == Cardinality({w \in Workers : wpc[w] # "off"})
    IN  /\ Cardinality({w \in Workers : wpc[w] = "downloading"}) <= requested
        /\ Cardinality(active_downloads) <= requested

(***************************************************************************)
(* C18: the statistics a statistics call returned are a copy: a write of   *)
(* the caller to the returned dict changes that dict and leaves the        *)
(* counters of both objects as they were, and no other step changes the    *)
(* items of a dict that was returned earlier.                              *)
(***************************************************************************)
C18_ReturnedStatisticsAreCopy ==
    [][ IF returned'.changes = returned.changes + 1
        THEN /\ bulk_statistics' = bulk_statistics
             /\ statistics' = statistics
             /\ \E key \in DOMAIN ItemsOf(returned.value),
                   value \in CallerValues :
                   ItemsOf(returned.value)' =
                      [ItemsOf(returned.value) EXCEPT ![key] = value]
        ELSE (returned.value.dict # 0
              /\ returned'.value.dict = returned.value.dict)
             => ItemsOf(returned.value)' = ItemsOf(returned.value) ]_vars

C18_Witness ==
    /\ returned.of = "get_statistics"
    /\ returned.changes = 1
    /\ ItemsOf(returned.value).total_failed = 99
    /\ bulk_statistics.total_failed = 1
    /\ bulk_statistics.total_requested > ItemsOf(returned.value).total_requested

(***************************************************************************)
(* C19: within one bulk operation every value given to the progress        *)
(* callback lies in 0..100, and the values never decrease.                 *)
(***************************************************************************)
C19_ProgressBoundedMonotone ==
    /\ \A i \in DOMAIN bulk_progress : bulk_progress[i] \in 0..100
    /\ \A i, j \in DOMAIN bulk_progress :
          i < j => bulk_progress[i] <= bulk_progress[j]

(***************************************************************************)
(* C20: two submissions never get the same id, and two tasks that are      *)
(* downloading at the same time each have an entry of their own in         *)
(* active_downloads.                                                       *)
(***************************************************************************)
C20_DistinctIds ==
    /\ \A t, u \in Tasks : t # u => tasks[t].id # tasks[u].id
    /\ \A v, w \in Workers :
          (v # w /\ wpc[v] = "downloading" /\ wpc[w] = "downloading")
          => \E a, b \in active_downloads :
                a # b /\ a.task = wentry[v].task /\ b.task = wentry[w].task

(***************************************************************************)
(* C21: when the loop of a bulk submission to a supported source is over,  *)
(* the Downloader was invoked once per target, there is one result entry   *)
(* per target and completed + failed is the number of targets.             *)
(***************************************************************************)
C21_OneResultPerTarget ==
    (bulk.pc = "as_completed" /\ bulk.pending = 0)
    => /\ bulk.invoked = bulk.total_urls
       /\ bulk.results = bulk.total_urls
       /\ bulk.completed + bulk.failed = bulk.total_urls

(***************************************************************************)
(* C22: start_scheduler reports an error to its caller when zero workers   *)
(* were requested, and in no other case.                                   *)
(***************************************************************************)
C22_ZeroWorkersIsAnError ==
    start_report.called
    => ( (start_report.max_concurrent = 0)
         <=> (start_report.value = "error" \/ start_report.logged = "error") )

(***************************************************************************)
(* C23: no statistics update of the workers is lost: whenever no worker    *)
(* holds a task, total_downloads and successful_downloads +                *)
(* failed_downloads both equal the number of tasks finalized.              *)
(***************************************************************************)
Finalized == {t \in Tasks : hist[t].outcome # "no"}

C23_NoLostStatisticsUpdate ==
    (mode = "workers" /\ \A w \in Workers : wentry[w] = NoEntry)
    => /\ statistics.total_downloads = Cardinality(Finalized)
       /\ statistics.successful_downloads + statistics.failed_downloads
            = Cardinality(Finalized)

(***************************************************************************)
(* C24: of two dispatches of one source that the workers' admission check  *)
(* let through by its own decision, the later one comes no sooner than     *)
(* the minimum spacing after the earlier one, and fewer dispatches than    *)
(* the limit precede it in its window.                                     *)
(***************************************************************************)
C24_AdmissionsAsIfSerial ==
    \A j \in DOMAIN log :
        (log[j].path = "worker" /\ ~log[j].on_error)
        => LET platform == tasks[log[j].task].platform
               earlier == {i \in 1..(j - 1) :
                             /\ tasks[log[i].task].platform = platform
                             /\ log[i].path = "worker"
                             /\ ~log[i].on_error}
           IN  /\ Cardinality({i \in earlier :
                                 log[i].time >= log[j].window_start})
                    < _get_platform_rate_limit(platform)
               /\ \A i \in earlier :
                     log[j].time - log[i].time >= min_delay(platform)

(***************************************************************************)
(* C25: for a source whose limiter record was created by                   *)
(* schedule_download, the workers' admission check never lets a dispatch   *)
(* through its allow-on-error path.                                        *)
(***************************************************************************)
C25_WorkerCheckReadsSchedulerRecord ==
    \A j \in DOMAIN log : log[j].path = "worker" => ~log[j].on_error

(***************************************************************************)
(* C26: every submitted task that is not finalized is in the queue exactly *)
(* once or held by exactly one worker, and no task is dispatched more      *)
(* than once.                                                              *)
(***************************************************************************)
C26_NoTaskLostOrDuplicated ==
    \A t \in Tasks :
        /\ hist[t].outcome = "no"
           => Cardinality({i \in DOMAIN heap : heap[i].task = t})
              + Cardinality({w \in Workers : wentry[w].task = t}) = 1
        /\ Cardinality({i \in DOMAIN log : log[i].task = t}) <= 1

(***************************************************************************)
(* C27: when batch_process_mixed_urls has returned, successful + failed is *)
(* the number of urls, and no url was counted as successful whose          *)
(* Downloader did not report success.                                      *)
(***************************************************************************)
C27_BatchCountsDownloaderResults ==
    batch.pc = "done"
    => /\ batch.successful + batch.failed = batch.total_urls
       /\ batch.miscounted = 0

(***************************************************************************)
(* C29: smart_retry_mechanism calls download_func at most max_retries      *)
(* times and never again after a call that reported success; what it       *)
(* returns is the success result when the last call reported success and   *)
(* a failure result otherwise, never an exception; and every call of the   *)
(* mechanism returns.                                                      *)
(***************************************************************************)
C29_SmartRetryBounded ==
    /\ [](/\ Len(retry.calls) <= retry.max_retries
          /\ \A i \in 1..(Len(retry.calls) - 1) : retry.calls[i] # "success"
          /\ retry.pc = "returned"
             => /\ retry.returned \in {"success", "failure"}
                /\ (retry.returned = "success")
                   <=> ( /\ retry.calls # <<>>
                         /\ retry.calls[Len(retry.calls)] = "success" ))
    /\ (retry.pc = "loop") ~> (retry.pc = "returned")

C29_Witness ==
    /\ retry.pc = "returned"
    /\ retry.returned = "success"
    /\ Len(retry.calls) >= 3
    /\ \E i \in DOMAIN retry.calls : retry.calls[i] = "raise"
    /\ \E i \in DOMAIN retry.calls : retry.calls[i] = "failure"

(***************************************************************************)
(* C30: once the workers have executed every submitted task, the queue's   *)
(* unfinished count is zero.                                               *)
(***************************************************************************)
C30_UnfinishedBalanced ==
    ( /\ mode = "workers"
      /\ Tasks # {}
      /\ sched.pc = "idle"
      /\ \A t \in Tasks : hist[t].outcome # "no" )
    => unfinished = 0

(***************************************************************************)
(* C28: in the GUI download queue at most one process_downloads thread is  *)
(* running at any time, and no item has had its Downloader invoked more    *)
(* often than it was queued.                                               *)
(***************************************************************************)
C28_OneThreadOneInvocation ==
    /\ Cardinality(Running) <= 1
    /\ \A i \in DOMAIN queue_items :
          queue_items[i].invoked <= queue_items[i].queued

C28_Witness ==
    /\ \E a, b, c \in DOMAIN presses :
          /\ a < b /\ b < c
          /\ presses[a] = "start" /\ presses[b] = "pause"
          /\ presses[c] = "start"
    /\ Len(threads) = 2
    /\ \A i \in DOMAIN queue_items : queue_items[i].invoked = 1
    /\ Len(queue_items) = 2

=============================================================================
